---- MODULE Spec2Model ----
(***************************************************************************)
(* Loyalty ledger of src/app.py: the two CSV datasets (customers, purchase *)
(* history) and the Flask handlers that load, change and save them.        *)
(*                                                                         *)
(* The state between two requests is the content of the two CSV files.     *)
(* Every handler reads a whole file through load_customers/load_history,   *)
(* which parse the cells the way pandas.read_csv does (the default NA      *)
(* tokens become NaN, Customer_ID/Name/Mobile are then turned into text by *)
(* astype(str), so NaN becomes the text "nan"), and writes it back whole   *)
(* through to_csv (NaN is written as an empty cell).                       *)
(*                                                                         *)
(* Amounts are Python floats; they are modelled as exact multiples of      *)
(* 1/Scale.  Form values are the values after request.form.get(..).strip().*)
(* Amounts that make float() or int() raise (non-numeric text, nan, inf)   *)
(* abort the request before anything is saved and are not enumerated.      *)
(***************************************************************************)
EXTENDS Integers, Sequences, FiniteSets, TLC

\* customers_csv, history_csv: the two files ([exists, rows]);
\* req: the request handled last; before: the two files as that request found them;
\* calls: for each worker thread, the request it is in the middle of
VARIABLES customers_csv, history_csv, req, before, calls

vars == <<customers_csv, history_csv, req, before, calls>>

(***************************************************************************)
(* Bounds and input domains                                                *)
(***************************************************************************)
\* number of purchases recorded in a run
MaxPurchases == 2

\* the threads of the server that handle requests side by side
Workers == 1..2

\* a float amount a is represented by the integer a * Scale
Scale == 2

Names == {"", "A"}
Mobiles == {"", "5"}
NewNames == {"", "A"}
NewMobiles == {"", "5", "null"}
\* -10.5 and 1005.5
Amounts == {-21, 2011}
FormDates == {"", "2024-01-01"}
Today == {"2024-02-02"}
RedeemInputs == {99, 100, 101}
Queries == {"", "5"}

(***************************************************************************)
(* Python / pandas primitives                                              *)
(***************************************************************************)
\* the float NaN that read_csv puts in a text column for a missing value
NaN == "<float nan>"

\* pandas' default na_values (read_csv, keep_default_na=True)
NA_VALUES ==
  {"", "#N/A", "#N/A N/A", "#NA", "-1.#IND", "-1.#QNAN", "-NaN", "-nan",
   "1.#IND", "1.#QNAN", "<NA>", "N/A", "NA", "NULL", "NaN", "None", "n/a",
   "nan", "null"}

\* read_csv of a cell of a column declared dtype=str
read_str(cell) == IF cell \in NA_VALUES THEN NaN ELSE cell

\* Series.astype(str)
astype_str(v) == IF v = NaN THEN "nan" ELSE v

\* Series.fillna("")
fillna_empty(v) == IF v = NaN THEN "" ELSE v

\* DataFrame.to_csv of a cell (na_rep = "")
to_csv_cell(v) == IF v = NaN THEN "" ELSE v

\* int(x) of a float x: truncation toward zero
py_int(x) == IF x >= 0 THEN x \div Scale ELSE -((-x) \div Scale)

Digit == <<"0", "1", "2", "3", "4", "5", "6", "7", "8", "9">>

IsDigit(c) == \E d \in 1..10 : Digit[d] = c

DigitVal(c) == (CHOOSE d \in 1..10 : Digit[d] = c) - 1

RECURSIVE Dec(_)
\* str(n) of a non-negative int
Dec(n) == IF n < 10 THEN Digit[n + 1] ELSE Dec(n \div 10) \o Digit[(n % 10) + 1]

RECURSIVE ZeroPad(_, _)
ZeroPad(s, w) == IF Len(s) >= w THEN s ELSE ZeroPad("0" \o s, w)

RECURSIVE ParseInt(_)
\* int(s) of a string of decimal digits
ParseInt(s) ==
  IF Len(s) = 0 THEN 0
  ELSE 10 * ParseInt(SubSeq(s, 1, Len(s) - 1)) + DigitVal(SubSeq(s, Len(s), Len(s)))

Max(S) == CHOOSE x \in S : \A y \in S : y <= x

Upper == <<"A", "B", "C", "D", "E", "F", "G", "H", "I", "J", "K", "L", "M",
           "N", "O", "P", "Q", "R", "S", "T", "U", "V", "W", "X", "Y", "Z">>
Lower == <<"a", "b", "c", "d", "e", "f", "g", "h", "i", "j", "k", "l", "m",
           "n", "o", "p", "q", "r", "s", "t", "u", "v", "w", "x", "y", "z">>

LowerChar(c) ==
  IF \E i \in 1..26 : Upper[i] = c THEN Lower[CHOOSE i \in 1..26 : Upper[i] = c] ELSE c

RECURSIVE LowerStr(_)
LowerStr(s) ==
  IF Len(s) = 0 THEN "" ELSE LowerChar(SubSeq(s, 1, 1)) \o LowerStr(SubSeq(s, 2, Len(s)))

\* Series.str.contains(query, case=False) for a query without regex
\* metacharacters: case-insensitive substring search
str_contains(s, query) ==
  LET ls == LowerStr(s)
      lq == LowerStr(query)
  IN \E i \in 1..(Len(ls) + 1) :
       i + Len(lq) - 1 <= Len(ls) /\ SubSeq(ls, i, i + Len(lq) - 1) = lq

(***************************************************************************)
(* Storage adapter                                                         *)
(***************************************************************************)
\* ensure_csv: a missing file is created with the header row only
ensure_csv(file) == [exists |-> TRUE, rows |-> file.rows]

\* The numeric cells of a file the handlers wrote are the integers to_csv
\* printed, which pd.to_numeric(..).fillna(0).astype(int) reads back unchanged.
load_customers(file) ==
  [i \in 1..Len(file.rows) |->
     LET r == file.rows[i] IN
     [Customer_ID |-> astype_str(read_str(r.Customer_ID)),
      Name |-> astype_str(read_str(r.Name)),
      Mobile |-> astype_str(read_str(r.Mobile)),
      Total_Purchase |-> r.Total_Purchase,
      Points |-> r.Points,
      Redeemed_Points |-> r.Redeemed_Points,
      Purchase_Date |-> fillna_empty(read_str(r.Purchase_Date))]]

save_customers(df) ==
  [exists |-> TRUE,
   rows |-> [i \in 1..Len(df) |->
               [Customer_ID |-> to_csv_cell(df[i].Customer_ID),
                Name |-> to_csv_cell(df[i].Name),
                Mobile |-> to_csv_cell(df[i].Mobile),
                Total_Purchase |-> df[i].Total_Purchase,
                Points |-> df[i].Points,
                Redeemed_Points |-> df[i].Redeemed_Points,
                Purchase_Date |-> to_csv_cell(df[i].Purchase_Date)]]]

load_history(file) ==
  [i \in 1..Len(file.rows) |->
     LET r == file.rows[i] IN
     [Txn_ID |-> read_str(r.Txn_ID),
      Customer_ID |-> read_str(r.Customer_ID),
      Name |-> read_str(r.Name),
      Mobile |-> read_str(r.Mobile),
      Purchase_Date |-> read_str(r.Purchase_Date),
      Amount |-> r.Amount,
      Points_Earned |-> r.Points_Earned]]

save_history(hx) ==
  [exists |-> TRUE,
   rows |-> [i \in 1..Len(hx) |->
               [Txn_ID |-> to_csv_cell(hx[i].Txn_ID),
                Customer_ID |-> to_csv_cell(hx[i].Customer_ID),
                Name |-> to_csv_cell(hx[i].Name),
                Mobile |-> to_csv_cell(hx[i].Mobile),
                Purchase_Date |-> to_csv_cell(hx[i].Purchase_Date),
                Amount |-> hx[i].Amount,
                Points_Earned |-> hx[i].Points_Earned]]]

(***************************************************************************)
(* Identity and points engine                                              *)
(***************************************************************************)
\* re.match(r"^CUST(\d{4,})$", cid)
cust_match(cid) ==
  /\ Len(cid) >= 8
  /\ SubSeq(cid, 1, 4) = "CUST"
  /\ \A i \in 5..Len(cid) : IsDigit(SubSeq(cid, i, i))

\* f"CUST{n:04d}"
format_cust(n) == "CUST" \o ZeroPad(Dec(n), 4)

\* next_customer_id numbering by the count of the customers
next_customer_id_count(df) ==
  IF Len(df) = 0 THEN "CUST0001" ELSE format_cust(Len(df) + 1)

\* next_customer_id with line 80 forgetting the "+ 1"
next_customer_id_no_incr(df) ==
  IF Len(df) = 0 THEN "CUST0001"
  ELSE LET nums == {ParseInt(SubSeq(df[i].Customer_ID, 5, Len(df[i].Customer_ID))) :
                      i \in {j \in 1..Len(df) : cust_match(df[j].Customer_ID)}}
           n == IF nums # {} THEN Max(nums) ELSE 1
       IN format_cust(n)

next_customer_id(df) ==
  IF Len(df) = 0 THEN "CUST0001"
  ELSE LET nums == {ParseInt(SubSeq(df[i].Customer_ID, 5, Len(df[i].Customer_ID))) :
                      i \in {j \in 1..Len(df) : cust_match(df[j].Customer_ID)}}
           n == IF nums # {} THEN Max(nums) + 1 ELSE 1
       IN format_cust(n)

\* points_from_amount rounding up instead of down
points_from_amount_ceil(amount) == -((-amount) \div (10 * Scale))

\* int(amount // 10)
points_from_amount(amount) == amount \div (10 * Scale)

\* df[mask].index[0], mask the set of the row numbers selected
first_index(mask) == CHOOSE i \in mask : \A j \in mask : i <= j

\* the files as a request finds them
files == [customers_csv |-> customers_csv, history_csv |-> history_csv]

(***************************************************************************)
(* POST /  (recordPurchase)                                                *)
(***************************************************************************)
\* index_post_df with line 103 overwriting the name unconditionally
index_post_df_rename(df, name, mobile, amount, purchase_date) ==
  LET exists(r) == r.Mobile = mobile IN
  IF \E i \in 1..Len(df) : exists(df[i])
  THEN LET idx == first_index({i \in 1..Len(df) : exists(df[i])}) IN
       [df EXCEPT ![idx] =
          [@ EXCEPT !.Name = name,
                    !.Total_Purchase = py_int(@ * Scale + amount),
                    !.Points = @ + points_from_amount(amount),
                    !.Purchase_Date = purchase_date]]
  ELSE Append(df, [Customer_ID |-> next_customer_id(df),
                   Name |-> name,
                   Mobile |-> mobile,
                   Total_Purchase |-> py_int(amount),
                   Points |-> points_from_amount(amount),
                   Redeemed_Points |-> 0,
                   Purchase_Date |-> purchase_date])

\* the customers frame after lines 99-119
index_post_df(df, name, mobile, amount, purchase_date) ==
  LET exists(r) == r.Mobile = mobile IN
  IF \E i \in 1..Len(df) : exists(df[i])
  THEN LET idx == first_index({i \in 1..Len(df) : exists(df[i])}) IN
       [df EXCEPT ![idx] =
          [@ EXCEPT !.Name = IF name # "" THEN name ELSE @,
                    !.Total_Purchase = py_int(@ * Scale + amount),
                    !.Points = @ + points_from_amount(amount),
                    !.Purchase_Date = purchase_date]]
  ELSE Append(df, [Customer_ID |-> next_customer_id(df),
                   Name |-> name,
                   Mobile |-> mobile,
                   Total_Purchase |-> py_int(amount),
                   Points |-> points_from_amount(amount),
                   Redeemed_Points |-> 0,
                   Purchase_Date |-> purchase_date])

\* cust_id of lines 107 and 109
index_post_cust_id(df, mobile) ==
  LET exists(r) == r.Mobile = mobile IN
  IF \E i \in 1..Len(df) : exists(df[i])
  THEN df[first_index({i \in 1..Len(df) : exists(df[i])})].Customer_ID
  ELSE next_customer_id(df)

\* uuid.uuid4().hex[:12]: the n-th token drawn, distinct from the earlier ones
uuid4_hex12(n) == ZeroPad(Dec(n), 12)

\* index_post_hx writing the new record alone instead of appending it
index_post_hx_overwrite(hx, txn, cust_id, name, mobile, amount, purchase_date) ==
  <<[Txn_ID |-> txn,
     Customer_ID |-> cust_id,
     Name |-> name,
     Mobile |-> mobile,
     Purchase_Date |-> purchase_date,
     Amount |-> amount,
     Points_Earned |-> points_from_amount(amount)]>>

\* the history frame after lines 124-133
index_post_hx(hx, txn, cust_id, name, mobile, amount, purchase_date) ==
  Append(hx, [Txn_ID |-> txn,
              Customer_ID |-> cust_id,
              Name |-> name,
              Mobile |-> mobile,
              Purchase_Date |-> purchase_date,
              Amount |-> amount,
              Points_Earned |-> points_from_amount(amount)])

index_post(name, mobile, amount, form_date, today) ==
  /\ Len(history_csv.rows) < MaxPurchases
  /\ LET purchase_date == IF form_date = "" THEN today ELSE form_date
         df == load_customers(customers_csv)
         hx == load_history(history_csv)
         txn == uuid4_hex12(Len(hx) + 1)
     IN /\ customers_csv' = save_customers(index_post_df(df, name, mobile, amount, purchase_date))
        /\ history_csv' = save_history(index_post_hx(hx, txn, index_post_cust_id(df, mobile),
                                                     name, mobile, amount, purchase_date))
        /\ req' = [op |-> "index_post", name |-> name, mobile |-> mobile,
                   amount |-> amount, purchase_date |-> purchase_date]
        /\ before' = files
        /\ UNCHANGED calls

\* GET /  (listCustomers): load_customers only
index_get ==
  /\ customers_csv' = ensure_csv(customers_csv)
  /\ UNCHANGED history_csv
  /\ req' = [op |-> "index_get"]
  /\ before' = files
  /\ UNCHANGED calls

(***************************************************************************)
(* POST /update_customer  (updateCustomerContactInfo)                      *)
(***************************************************************************)
\* update_accepted without the duplicate-mobile test of lines 153-157
update_accepted_no_dup(df, customer_id, new_mobile) ==
  \E i \in 1..Len(df) : df[i].Customer_ID = customer_id

\* lines 149-157: the request is not turned away
update_accepted(df, customer_id, new_mobile) ==
  /\ \E i \in 1..Len(df) : df[i].Customer_ID = customer_id
  /\ ~(/\ new_mobile # ""
       /\ \E i \in 1..Len(df) : df[i].Mobile = new_mobile /\ df[i].Customer_ID # customer_id)

\* lines 159-163
update_customer_df(df, customer_id, new_name, new_mobile) ==
  LET target(r) == r.Customer_ID = customer_id
      idx == first_index({i \in 1..Len(df) : target(df[i])})
  IN [df EXCEPT ![idx] = [@ EXCEPT !.Name = IF new_name # "" THEN new_name ELSE @,
                                   !.Mobile = IF new_mobile # "" THEN new_mobile ELSE @]]

update_customer(customer_id, new_name, new_mobile) ==
  /\ LET df == load_customers(customers_csv) IN
     customers_csv' = IF update_accepted(df, customer_id, new_mobile)
                      THEN save_customers(update_customer_df(df, customer_id, new_name, new_mobile))
                      ELSE ensure_csv(customers_csv)
  /\ UNCHANGED history_csv
  /\ req' = [op |-> "update_customer", customer_id |-> customer_id,
             new_name |-> new_name, new_mobile |-> new_mobile]
  /\ before' = files
  /\ UNCHANGED calls

(***************************************************************************)
(* POST /delete_customer                                                   *)
(***************************************************************************)
\* delete_customer_df with the comparison of line 173 inverted
delete_customer_df_inverted(df, customer_id) ==
  SelectSeq(df, LAMBDA r : r.Customer_ID = customer_id)

\* line 173
delete_customer_df(df, customer_id) ==
  SelectSeq(df, LAMBDA r : r.Customer_ID # customer_id)

delete_customer(customer_id) ==
  /\ LET df == load_customers(customers_csv) IN
     customers_csv' = IF \E i \in 1..Len(df) : df[i].Customer_ID = customer_id
                      THEN save_customers(delete_customer_df(df, customer_id))
                      ELSE ensure_csv(customers_csv)
  /\ UNCHANGED history_csv
  /\ req' = [op |-> "delete_customer", customer_id |-> customer_id]
  /\ before' = files
  /\ UNCHANGED calls

(***************************************************************************)
(* /redeem  (redeemPoints, searchCustomers)                                *)
(***************************************************************************)
\* redeem_accepted without the upper bound of line 200
redeem_accepted_no_upper(df, customer_id, redeem_points) ==
  /\ \E i \in 1..Len(df) : df[i].Customer_ID = customer_id
  /\ LET target(r) == r.Customer_ID = customer_id
         available == df[first_index({i \in 1..Len(df) : target(df[i])})].Points
     IN available >= 100 /\ 100 <= redeem_points

\* lines 196-200
redeem_accepted(df, customer_id, redeem_points) ==
  /\ \E i \in 1..Len(df) : df[i].Customer_ID = customer_id
  /\ LET target(r) == r.Customer_ID = customer_id
         available == df[first_index({i \in 1..Len(df) : target(df[i])})].Points
     IN available >= 100 /\ 100 <= redeem_points /\ redeem_points <= available

\* redeem_df with line 202 subtracting
redeem_df_lowering(df, customer_id, redeem_points) ==
  LET target(r) == r.Customer_ID = customer_id
      idx == first_index({i \in 1..Len(df) : target(df[i])})
  IN [df EXCEPT ![idx] = [@ EXCEPT !.Points = @ - redeem_points,
                                   !.Redeemed_Points = @ - redeem_points]]

\* lines 197-202
redeem_df(df, customer_id, redeem_points) ==
  LET target(r) == r.Customer_ID = customer_id
      idx == first_index({i \in 1..Len(df) : target(df[i])})
  IN [df EXCEPT ![idx] = [@ EXCEPT !.Points = @ - redeem_points,
                                   !.Redeemed_Points = @ + redeem_points]]

redeem_post(customer_id, redeem_points) ==
  /\ LET df == load_customers(customers_csv) IN
     customers_csv' = IF redeem_accepted(df, customer_id, redeem_points)
                      THEN save_customers(redeem_df(df, customer_id, redeem_points))
                      ELSE ensure_csv(customers_csv)
  /\ UNCHANGED history_csv
  /\ req' = [op |-> "redeem", customer_id |-> customer_id, redeem_points |-> redeem_points]
  /\ before' = files
  /\ UNCHANGED calls

\* lines 186-192: the rows the search shows
search_customers(df, query) ==
  IF query = "" THEN <<>>
  ELSE SelectSeq(df, LAMBDA r : str_contains(r.Mobile, query) \/ str_contains(r.Customer_ID, query))

\* POST action=search; a GET of the page loads the customers the same way
redeem_search(query) ==
  /\ customers_csv' = ensure_csv(customers_csv)
  /\ UNCHANGED history_csv
  /\ req' = [op |-> "redeem_search", query |-> query]
  /\ before' = files
  /\ UNCHANGED calls

(***************************************************************************)
(* /history  (searchHistory)                                               *)
(***************************************************************************)
\* lines 216-221: the rows hx[mask]
history_matches(hx, query) ==
  IF query = "" THEN <<>>
  ELSE SelectSeq(hx, LAMBDA r : \/ str_contains(astype_str(r.Mobile), query)
                                \/ str_contains(astype_str(r.Customer_ID), query))

\* POST with a query; a GET of the page loads the history the same way
history_search(query) ==
  /\ history_csv' = ensure_csv(history_csv)
  /\ UNCHANGED customers_csv
  /\ req' = [op |-> "history_search", query |-> query]
  /\ before' = files
  /\ UNCHANGED calls

(***************************************************************************)
(* Specification                                                           *)
(***************************************************************************)
\* the customer ids a form can carry: those a run can assign (a request made
\* before the id is assigned, or after its customer is deleted, names an
\* unknown customer)
CustomerIds == {format_cust(n) : n \in 1..MaxPurchases}

Init ==
  /\ customers_csv = [exists |-> FALSE, rows |-> <<>>]
  /\ history_csv = [exists |-> FALSE, rows |-> <<>>]
  /\ req = [op |-> "start"]
  /\ before = [customers_csv |-> [exists |-> FALSE, rows |-> <<>>],
               history_csv |-> [exists |-> FALSE, rows |-> <<>>]]
  /\ calls = [w \in Workers |-> [op |-> "idle", n |-> 0]]

Next ==
  \/ \E name \in Names, mobile \in Mobiles, amount \in Amounts,
        form_date \in FormDates, today \in Today :
       index_post(name, mobile, amount, form_date, today)
  \/ index_get
  \/ \E customer_id \in CustomerIds, new_name \in NewNames, new_mobile \in NewMobiles :
       update_customer(customer_id, new_name, new_mobile)
  \/ \E customer_id \in CustomerIds : delete_customer(customer_id)
  \/ \E customer_id \in CustomerIds, redeem_points \in RedeemInputs :
       redeem_post(customer_id, redeem_points)
  \/ \E query \in Queries : redeem_search(query)
  \/ \E query \in Queries : history_search(query)

Spec == Init /\ [][Next]_vars

\* recordPurchase and redeemPoints only
NextLedger ==
  \/ \E name \in Names, mobile \in Mobiles, amount \in Amounts,
        form_date \in FormDates, today \in Today :
       index_post(name, mobile, amount, form_date, today)
  \/ \E customer_id \in CustomerIds, redeem_points \in RedeemInputs :
       redeem_post(customer_id, redeem_points)

SpecLedger == Init /\ [][NextLedger]_vars

(***************************************************************************)
(* next_customer_id on its own: customers files with arbitrary ids         *)
(***************************************************************************)
MaxIds == 3

\* Customer_ID cells: ids of the CUST#### form, with more digits, with too
\* few digits, in lower case, and an empty cell
IdCells == {"CUST0001", "CUST0003", "CUST9999", "CUST00012", "CUST012", "cust0007", ""}

id_row(cid) ==
  [Customer_ID |-> cid, Name |-> "A", Mobile |-> "5", Total_Purchase |-> 0,
   Points |-> 0, Redeemed_Points |-> 0, Purchase_Date |-> "2024-01-01"]

IdFiles ==
  UNION {{[exists |-> TRUE, rows |-> [i \in 1..n |-> id_row(ids[i])]] :
            ids \in [1..n -> IdCells]} : n \in 0..MaxIds}

InitNextId ==
  /\ customers_csv \in IdFiles
  /\ history_csv = [exists |-> FALSE, rows |-> <<>>]
  /\ req = [op |-> "start"]
  /\ before = [customers_csv |-> [exists |-> FALSE, rows |-> <<>>],
               history_csv |-> [exists |-> FALSE, rows |-> <<>>]]
  /\ calls = [w \in Workers |-> [op |-> "idle", n |-> 0]]

\* line 108: next_customer_id(df) on the loaded frame
next_customer_id_call ==
  /\ req.op = "start"
  /\ req' = [op |-> "next_customer_id",
             result |-> next_customer_id(load_customers(customers_csv))]
  /\ before' = files
  /\ UNCHANGED calls
  /\ UNCHANGED <<customers_csv, history_csv>>

NextNextId == next_customer_id_call

SpecNextId == InitNextId /\ [][NextNextId]_vars

(***************************************************************************)
(* The handlers statement by statement: requests served side by side, and  *)
(* a request cut short by a crash                                          *)
(***************************************************************************)
\* number of requests the workers serve in a run
MaxCalls == 3

\* the requests that have entered a handler so far
started == calls[1].n + calls[2].n

PurchaseForms ==
  {[name |-> "A", mobile |-> mobile, amount |-> 2011, purchase_date |-> "2024-02-02"] :
     mobile \in {"5", "6"}}

RedeemForms == {[customer_id |-> "CUST0001", redeem_points |-> 100]}

\* index with the history written before the customers
index_statements_history_first ==
  <<"load_customers", "load_history", "save_history", "save_customers">>

\* the file accesses of a POST / in program order: lines 89, 121, 124, 134
index_statements == <<"load_customers", "save_customers", "load_history", "save_history">>

\* the file accesses of a POST /redeem: lines 180, 203
redeem_statements == <<"load_customers", "save_customers">>

statements(op) == IF op = "index_post" THEN index_statements ELSE redeem_statements

\* a handler that reads the file again when it comes to write
held_frame_reloaded(c, file) == load_customers(file)

\* the frame a handler changes and saves is the one it loaded at line 89 or
\* 180, whatever the file holds by then
held_frame(c, file) == c.df

\* the request enters the handler
begin_index_post(w, form) ==
  /\ calls[w].op = "idle"
  /\ started < MaxCalls
  /\ calls' = [calls EXCEPT ![w] = [op |-> "index_post", n |-> @.n + 1, pc |-> 1,
                                    form |-> form, df |-> <<>>, hx |-> <<>>]]
  /\ UNCHANGED <<customers_csv, history_csv, req, before>>

begin_redeem(w, form) ==
  /\ calls[w].op = "idle"
  /\ started < MaxCalls
  /\ calls' = [calls EXCEPT ![w] = [op |-> "redeem", n |-> @.n + 1, pc |-> 1,
                                    form |-> form, df |-> <<>>, hx |-> <<>>]]
  /\ UNCHANGED <<customers_csv, history_csv, req, before>>

\* what the statement leaves in customers.csv
statement_customers(c, st) ==
  IF st = "load_customers" THEN ensure_csv(customers_csv)
  ELSE IF st # "save_customers" THEN customers_csv
  ELSE IF c.op = "index_post"
  THEN save_customers(index_post_df(held_frame(c, customers_csv), c.form.name, c.form.mobile,
                                    c.form.amount, c.form.purchase_date))
  ELSE LET df == held_frame(c, customers_csv) IN
       IF redeem_accepted(df, c.form.customer_id, c.form.redeem_points)
       THEN save_customers(redeem_df(df, c.form.customer_id, c.form.redeem_points))
       ELSE customers_csv

\* what the statement leaves in purchase_history.csv; the Txn_ID is a token
\* no other request draws
statement_history(w, c, st) ==
  IF st = "load_history" THEN ensure_csv(history_csv)
  ELSE IF st # "save_history" THEN history_csv
  ELSE save_history(index_post_hx(c.hx, uuid4_hex12((w - 1) * MaxCalls + c.n),
                                  index_post_cust_id(c.df, c.form.mobile),
                                  c.form.name, c.form.mobile, c.form.amount,
                                  c.form.purchase_date))

\* the worker runs the next file access of its handler; after the last one the
\* handler returns
statement(w) ==
  /\ calls[w].op # "idle"
  /\ LET c == calls[w]
         st == statements(c.op)[c.pc]
     IN /\ customers_csv' = statement_customers(c, st)
        /\ history_csv' = statement_history(w, c, st)
        /\ calls' = [calls EXCEPT ![w] =
                       IF c.pc = Len(statements(c.op)) THEN [op |-> "idle", n |-> c.n]
                       ELSE [c EXCEPT !.pc = @ + 1,
                                      !.df = IF st = "load_customers"
                                             THEN load_customers(customers_csv) ELSE @,
                                      !.hx = IF st = "load_history"
                                             THEN load_history(history_csv) ELSE @]]
        /\ req' = [op |-> "statement", worker |-> w, statement |-> st, call |-> c]
        /\ before' = files

\* the process dies in the middle of the handler
crash(w) ==
  /\ calls[w].op # "idle"
  /\ calls' = [calls EXCEPT ![w] = [op |-> "idle", n |-> @.n]]
  /\ UNCHANGED <<customers_csv, history_csv, req, before>>

\* two workers, purchases and redemptions, no crash
NextConcurrent ==
  \/ \E w \in Workers, form \in PurchaseForms : begin_index_post(w, form)
  \/ \E w \in Workers, form \in RedeemForms : begin_redeem(w, form)
  \/ \E w \in Workers : statement(w)

SpecConcurrent == Init /\ [][NextConcurrent]_vars

\* one worker, purchases one after the other, crashes
NextCrash ==
  \/ \E form \in PurchaseForms : begin_index_post(1, form)
  \/ statement(1)
  \/ crash(1)

SpecCrash == Init /\ [][NextCrash]_vars

(***************************************************************************)
(* load_customers on a customers.csv the handlers did not write: columns   *)
(* may be missing and numeric cells hold any text                          *)
(***************************************************************************)
\* number of rows of such a file
MaxRows == 1

CUSTOMERS_COLS ==
  {"Customer_ID", "Name", "Mobile", "Total_Purchase", "Points", "Redeemed_Points",
   "Purchase_Date"}

IsDigits(s) == Len(s) > 0 /\ \A i \in 1..Len(s) : IsDigit(SubSeq(s, i, i))

\* pd.to_numeric(cell, errors="coerce"), then fillna(0).astype(int), of the
\* text of a cell: an integer, a decimal fraction (cut toward zero), or
\* anything else (NaN, hence 0)
to_numeric_int(s) ==
  LET neg == Len(s) > 0 /\ SubSeq(s, 1, 1) = "-"
      body == IF neg THEN SubSeq(s, 2, Len(s)) ELSE s
      sign == IF neg THEN -1 ELSE 1
      dots == {i \in 1..Len(body) : SubSeq(body, i, i) = "."}
  IN IF IsDigits(body) THEN sign * ParseInt(body)
     ELSE IF /\ Cardinality(dots) = 1
             /\ \E i \in dots : /\ IsDigits(SubSeq(body, 1, i - 1))
                                /\ IsDigits(SubSeq(body, i + 1, Len(body)))
     THEN sign * ParseInt(SubSeq(body, 1, (CHOOSE i \in dots : TRUE) - 1))
     ELSE 0

\* load_customers of a file [exists, columns, rows] whose cells are all text:
\* lines 36-38 fill a missing column with "" or 0 before lines 42-48 run
load_customers_raw(file) ==
  [i \in 1..Len(file.rows) |->
     LET r == file.rows[i]
         has(c) == c \in file.columns
     IN [Customer_ID |-> astype_str(IF has("Customer_ID") THEN read_str(r.Customer_ID) ELSE ""),
         Name |-> astype_str(IF has("Name") THEN read_str(r.Name) ELSE ""),
         Mobile |-> astype_str(IF has("Mobile") THEN read_str(r.Mobile) ELSE ""),
         Total_Purchase |-> IF has("Total_Purchase") THEN to_numeric_int(r.Total_Purchase) ELSE 0,
         Points |-> IF has("Points") THEN to_numeric_int(r.Points) ELSE 0,
         Redeemed_Points |-> IF has("Redeemed_Points")
                             THEN to_numeric_int(r.Redeemed_Points) ELSE 0,
         Purchase_Date |-> fillna_empty(IF has("Purchase_Date")
                                        THEN read_str(r.Purchase_Date) ELSE "")]]

\* the header rows tried: complete, and with one or two columns missing
RawColumns ==
  {CUSTOMERS_COLS, CUSTOMERS_COLS \ {"Name"}, CUSTOMERS_COLS \ {"Points"},
   CUSTOMERS_COLS \ {"Purchase_Date"}, CUSTOMERS_COLS \ {"Mobile", "Total_Purchase"}}

RawRows ==
  [Customer_ID : {"CUST0001"}, Name : {"A", "", "null"}, Mobile : {"5", ""},
   Total_Purchase : {"7", "3.7", "abc", ""}, Points : {"7", "-3.7"},
   Redeemed_Points : {"0"}, Purchase_Date : {"2024-01-01", ""}]

\* a missing column has no cells
RawFiles ==
  UNION {{[exists |-> TRUE, columns |-> cols, rows |-> rows] :
            rows \in {rr \in [1..n -> RawRows] :
                        \A i \in 1..n : \A c \in CUSTOMERS_COLS \ cols : rr[i][c] = ""}} :
           n \in 0..MaxRows, cols \in RawColumns}

InitStorage ==
  /\ customers_csv \in RawFiles
  /\ history_csv = [exists |-> FALSE, rows |-> <<>>]
  /\ req = [op |-> "start"]
  /\ before = [customers_csv |-> [exists |-> FALSE, rows |-> <<>>],
               history_csv |-> [exists |-> FALSE, rows |-> <<>>]]
  /\ calls = [w \in Workers |-> [op |-> "idle", n |-> 0]]

\* save_customers(load_customers()): a handler that saves the frame as loaded
resave ==
  /\ req.op = "start"
  /\ customers_csv' = save_customers(load_customers_raw(customers_csv))
  /\ req' = [op |-> "resave", loaded |-> load_customers_raw(customers_csv)]
  /\ before' = files
  /\ UNCHANGED <<history_csv, calls>>

NextStorage == resave

SpecStorage == InitStorage /\ [][NextStorage]_vars

(***************************************************************************)
(* The page /history shows: search, sort and header on stored histories    *)
(***************************************************************************)
\* number of records of a stored history
MaxRecords == 3

\* pd.NaT; sort_values puts it after every date when descending
NaT == -1

\* a "YYYY-MM-DD" text (the days of a month not told apart)
IsIsoDate(s) ==
  /\ Len(s) = 10
  /\ SubSeq(s, 5, 5) = "-" /\ SubSeq(s, 8, 8) = "-"
  /\ IsDigits(SubSeq(s, 1, 4)) /\ IsDigits(SubSeq(s, 6, 7)) /\ IsDigits(SubSeq(s, 9, 10))
  /\ ParseInt(SubSeq(s, 6, 7)) \in 1..12
  /\ ParseInt(SubSeq(s, 9, 10)) \in 1..31

\* pd.to_datetime(v, errors="coerce"): year, month and day as one number that
\* orders as the dates do; NaT for a missing or unreadable date
to_datetime(v) ==
  IF v # NaN /\ IsIsoDate(v)
  THEN ParseInt(SubSeq(v, 1, 4)) * 10000 + ParseInt(SubSeq(v, 6, 7)) * 100
       + ParseInt(SubSeq(v, 9, 10))
  ELSE NaT

\* Series.dt.strftime("%Y-%m-%d")
strftime(t) ==
  IF t = NaT THEN NaN
  ELSE ZeroPad(Dec(t \div 10000), 4) \o "-" \o ZeroPad(Dec((t \div 100) % 100), 2)
       \o "-" \o ZeroPad(Dec(t % 100), 2)

\* sort_values("Purchase_Date", ascending=False): the orders of the rows in
\* which the dates fall, NaT last; rows of one date come in an order the sort
\* does not promise
sort_values_desc(rows) ==
  LET n == Len(rows)
      perms == {p \in [1..n -> 1..n] : \A i, j \in 1..n : p[i] = p[j] => i = j}
  IN {[i \in 1..n |-> rows[p[i]]] :
        p \in {q \in perms : \A i, j \in 1..n :
                 i < j => to_datetime(rows[q[i]].Purchase_Date)
                            >= to_datetime(rows[q[j]].Purchase_Date)}}

\* lines 223-225 on the rows sorted: the dates as the page prints them
render_dates(rows) ==
  [i \in 1..Len(rows) |->
     [rows[i] EXCEPT !.Purchase_Date = strftime(to_datetime(@))]]

\* lines 226-232: the header, <<>> standing for None
history_header(results) ==
  IF results = <<>> THEN <<>>
  ELSE <<[Customer_ID |-> results[1].Customer_ID, Name |-> results[1].Name,
          Mobile |-> results[1].Mobile]>>

HistoryRows ==
  [Customer_ID : {"CUST0001", "CUST0002"}, Name : {"A"}, Mobile : {"5", ""},
   Purchase_Date : {"2024-01-01", "2024-02-02", "soon"}, Amount : {2011},
   Points_Earned : {100}]

HistoryFiles ==
  UNION {{[exists |-> TRUE,
           rows |-> [i \in 1..n |->
                       [Txn_ID |-> uuid4_hex12(i), Customer_ID |-> rr[i].Customer_ID,
                        Name |-> rr[i].Name, Mobile |-> rr[i].Mobile,
                        Purchase_Date |-> rr[i].Purchase_Date, Amount |-> rr[i].Amount,
                        Points_Earned |-> rr[i].Points_Earned]]] :
            rr \in [1..n -> HistoryRows]} : n \in 0..MaxRecords}

SearchQueries == {"", "5", "cust0001", "nan"}

InitSearch ==
  /\ customers_csv = [exists |-> TRUE, rows |-> <<>>]
  /\ history_csv \in HistoryFiles
  /\ req = [op |-> "start"]
  /\ before = [customers_csv |-> [exists |-> FALSE, rows |-> <<>>],
               history_csv |-> [exists |-> FALSE, rows |-> <<>>]]
  /\ calls = [w \in Workers |-> [op |-> "idle", n |-> 0]]

\* POST /history with what the page is given: purchases and header
history_post(query) ==
  /\ req.op = "start"
  /\ \E sorted \in sort_values_desc(history_matches(load_history(history_csv), query)) :
       req' = [op |-> "history", query |-> query,
               results |-> render_dates(sorted),
               header |-> history_header(render_dates(sorted))]
  /\ history_csv' = ensure_csv(history_csv)
  /\ before' = files
  /\ UNCHANGED <<customers_csv, calls>>

NextSearch == \E query \in SearchQueries : history_post(query)

SpecSearch == InitSearch /\ [][NextSearch]_vars

\* the datasets as load returns them: after the last request, and before it
Customers == load_customers(customers_csv)
History == load_history(history_csv)
CustomersBefore == load_customers(before.customers_csv)
HistoryBefore == load_history(before.history_csv)

(***************************************************************************)
(* Properties.  "The customers dataset" and "the history dataset" are the  *)
(* records load_customers and load_history return; the request under       *)
(* judgement is req, the datasets it found are CustomersBefore and         *)
(* HistoryBefore.                                                          *)
(***************************************************************************)
\* the numeric suffix of a Customer_ID of the form CUST####
Suffix(cid) == ParseInt(SubSeq(cid, 5, Len(cid)))

\* floor(x) of a float x
py_floor(x) == x \div Scale

\* floor(amount / 10)
FloorTenth(amount) == amount \div (10 * Scale)

RECURSIVE SumFloorAmount(_)
SumFloorAmount(rows) ==
  IF rows = <<>> THEN 0 ELSE py_floor(Head(rows).Amount) + SumFloorAmount(Tail(rows))

RECURSIVE SumFloorTenth(_)
SumFloorTenth(rows) ==
  IF rows = <<>> THEN 0 ELSE FloorTenth(Head(rows).Amount) + SumFloorTenth(Tail(rows))

Known(df, cid) == \E i \in 1..Len(df) : df[i].Customer_ID = cid

\* C1: in every reachable state every customer's Points balance is >= 0.
C1_PointsNonNegative ==
  \A i \in 1..Len(Customers) : Customers[i].Points >= 0

\* C2: redeemPoints succeeds exactly when the customer exists, its Points are
\* >= 100 and 100 <= requested <= Points; on success Points falls and
\* Redeemed_Points rises by exactly the requested amount, and no other field,
\* no other customer and no history record changes.
C2_RedeemExact ==
  req.op = "redeem" =>
    LET old == CustomersBefore
        new == Customers
        cid == req.customer_id
        pts == req.redeem_points
        succeeds == \E i \in 1..Len(old) :
                      /\ old[i].Customer_ID = cid
                      /\ old[i].Points >= 100
                      /\ 100 <= pts
                      /\ pts <= old[i].Points
    IN /\ (new # old) <=> succeeds
       /\ Len(new) = Len(old)
       /\ \A i \in 1..Len(old) :
            IF succeeds /\ old[i].Customer_ID = cid
            THEN /\ new[i].Points = old[i].Points - pts
                 /\ new[i].Redeemed_Points = old[i].Redeemed_Points + pts
                 /\ new[i].Points + new[i].Redeemed_Points
                      = old[i].Points + old[i].Redeemed_Points
                 /\ new[i] = [old[i] EXCEPT !.Points = new[i].Points,
                                            !.Redeemed_Points = new[i].Redeemed_Points]
            ELSE new[i] = old[i]
       /\ History = HistoryBefore
       /\ history_csv = before.history_csv

\* C2 witness: a redemption of the whole balance went through (150 of 150 in
\* the spec's example; here 100 of 100).
C2_Witness ==
  /\ req.op = "redeem"
  /\ \E i \in 1..Len(Customers) :
       /\ Customers[i].Customer_ID = req.customer_id
       /\ Customers[i].Points = 0
       /\ Customers[i].Redeemed_Points = req.redeem_points
       /\ CustomersBefore[i].Points = req.redeem_points

\* C3: a rejected redeemPoints (unknown customer, requested < 100, requested >
\* Points) and a rejected updateCustomerContactInfo (unknown id, or a non-empty
\* new mobile held by a different customer) leave both datasets as they were.
C3_RejectedNoEffect ==
  LET old == CustomersBefore
      redeem_rejected ==
        /\ req.op = "redeem"
        /\ \/ ~Known(old, req.customer_id)
           \/ req.redeem_points < 100
           \/ \E i \in 1..Len(old) : /\ old[i].Customer_ID = req.customer_id
                                     /\ req.redeem_points > old[i].Points
      update_rejected ==
        /\ req.op = "update_customer"
        /\ \/ ~Known(old, req.customer_id)
           \/ /\ req.new_mobile # ""
              /\ \E i \in 1..Len(old) : /\ old[i].Mobile = req.new_mobile
                                        /\ old[i].Customer_ID # req.customer_id
  IN (redeem_rejected \/ update_rejected) =>
       /\ customers_csv.rows = before.customers_csv.rows
       /\ Customers = CustomersBefore
       /\ history_csv = before.history_csv

\* C3 witness: an edit to a mobile that another customer holds was turned away.
C3_Witness ==
  /\ req.op = "update_customer"
  /\ req.new_mobile # ""
  /\ Known(Customers, req.customer_id)
  /\ \E i \in 1..Len(Customers) : /\ Customers[i].Mobile = req.new_mobile
                                  /\ Customers[i].Customer_ID # req.customer_id
  /\ \E i \in 1..Len(Customers) : /\ Customers[i].Customer_ID = req.customer_id
                                  /\ Customers[i].Mobile # req.new_mobile

\* C4: no two distinct customer records have the same Mobile.
C4_MobileUnique ==
  \A i, j \in 1..Len(Customers) : i # j => Customers[i].Mobile # Customers[j].Mobile

\* C5: when recordPurchase creates a customer, the suffix of the new
\* Customer_ID is greater than the suffix of every Customer_ID assigned by an
\* earlier creation (each of which stands in the history), deleted or not.
C5_IdsIncrease ==
  (req.op = "index_post" /\ Len(Customers) = Len(CustomersBefore) + 1) =>
    \A k \in 1..Len(HistoryBefore) :
      Suffix(Customers[Len(Customers)].Customer_ID) > Suffix(HistoryBefore[k].Customer_ID)

\* C6: the history is append-only: what a request found is a prefix of what it
\* leaves, recordPurchase adds exactly one record, every other operation none.
C6_HistoryAppendOnly ==
  /\ Len(History) >= Len(HistoryBefore)
  /\ SubSeq(History, 1, Len(HistoryBefore)) = HistoryBefore
  /\ req.op = "index_post" => Len(History) = Len(HistoryBefore) + 1
  /\ req.op # "index_post" => /\ History = HistoryBefore
                              /\ history_csv.rows = before.history_csv.rows

\* C6 witness: a second purchase was appended behind a record with a missing
\* text cell.
C6_Witness ==
  /\ req.op = "index_post"
  /\ Len(History) = 2
  /\ Len(HistoryBefore) = 1
  /\ History[1].Mobile = NaN

\* C7: deleteCustomer removes the records with that Customer_ID and nothing
\* else: the others stay, unchanged and in order, the history is untouched (a
\* history search for the id returns what it returned), and an unknown id
\* changes nothing.
C7_DeleteFrame ==
  req.op = "delete_customer" =>
    LET cid == req.customer_id IN
    /\ Customers = SelectSeq(CustomersBefore, LAMBDA r : r.Customer_ID # cid)
    /\ history_csv = before.history_csv
    /\ history_matches(History, cid) = history_matches(HistoryBefore, cid)
    /\ ~Known(CustomersBefore, cid) => customers_csv.rows = before.customers_csv.rows

\* C7 witness: one of two customers was deleted and its purchases are still
\* found in the history.
C7_Witness ==
  /\ req.op = "delete_customer"
  /\ Len(CustomersBefore) = 2
  /\ Len(Customers) = 1
  /\ ~Known(Customers, req.customer_id)
  /\ history_matches(History, req.customer_id) # <<>>

\* C8 (under SpecLedger: purchases and redemptions only): when every purchase
\* so far used the same mobile, the customer's Total_Purchase is the sum of the
\* floored amounts and its Points + Redeemed_Points the sum of floor(amount/10).
C8_LedgerSums ==
  \A m \in Mobiles :
    (/\ history_csv.rows # <<>>
     /\ \A k \in 1..Len(history_csv.rows) : history_csv.rows[k].Mobile = m)
    => \A i \in 1..Len(Customers) :
         /\ Customers[i].Total_Purchase = SumFloorAmount(history_csv.rows)
         /\ Customers[i].Points + Customers[i].Redeemed_Points
              = SumFloorTenth(history_csv.rows)

C10_UpdateFrame ==
  req.op = "update_customer" =>
    LET old == CustomersBefore
        new == Customers
        cid == req.customer_id
        held == \E i \in 1..Len(old) : /\ old[i].Mobile = req.new_mobile
                                       /\ old[i].Customer_ID # cid
    IN (Known(old, cid) /\ (req.new_mobile = "" \/ ~held)) =>
         /\ Len(new) = Len(old)
         /\ \A i \in 1..Len(old) :
              IF old[i].Customer_ID = cid
              THEN /\ new[i] = [old[i] EXCEPT !.Name = new[i].Name, !.Mobile = new[i].Mobile]
                   /\ req.new_name = "" => new[i].Name = old[i].Name
                   /\ req.new_mobile = "" => new[i].Mobile = old[i].Mobile
              ELSE new[i] = old[i]
         /\ history_csv = before.history_csv
         /\ req.new_mobile # "" =>
              \E k \in 1..Len(search_customers(new, req.new_mobile)) :
                search_customers(new, req.new_mobile)[k].Customer_ID = cid

\* C11: no request lowers the Redeemed_Points of a customer that exists both
\* before and after it, and a customer that a request creates starts with
\* Redeemed_Points = 0.
C11_RedeemedMonotone ==
  /\ \A i \in 1..Len(CustomersBefore) : \A j \in 1..Len(Customers) :
       Customers[j].Customer_ID = CustomersBefore[i].Customer_ID =>
         Customers[j].Redeemed_Points >= CustomersBefore[i].Redeemed_Points
  /\ \A j \in 1..Len(Customers) :
       ~Known(CustomersBefore, Customers[j].Customer_ID) =>
         Customers[j].Redeemed_Points = 0

\* a redemption has raised Redeemed_Points, next to a customer just as old
C11_Witness ==
  /\ req.op = "redeem"
  /\ Len(Customers) = 2
  /\ \E i \in 1..Len(CustomersBefore) : \E j \in 1..Len(Customers) :
       /\ Customers[j].Customer_ID = CustomersBefore[i].Customer_ID
       /\ Customers[j].Redeemed_Points > CustomersBefore[i].Redeemed_Points

\* C17: no two customer records share a Customer_ID, and the id recordPurchase
\* gives a new customer differs from the id of every customer present when the
\* request arrived.
C17_IdsUnique ==
  /\ \A i, j \in 1..Len(Customers) :
       Customers[i].Customer_ID = Customers[j].Customer_ID => i = j
  /\ (req.op = "index_post" /\ Len(Customers) = Len(CustomersBefore) + 1) =>
       ~Known(CustomersBefore, Customers[Len(Customers)].Customer_ID)

\* a purchase has created a customer next to one already present
C17_Witness ==
  /\ req.op = "index_post"
  /\ Len(CustomersBefore) = 1
  /\ Len(Customers) = 2

\* the Points_Earned of the history records that carry customer id cid
RECURSIVE SumEarned(_, _)
SumEarned(rows, cid) ==
  IF rows = <<>> THEN 0
  ELSE (IF Head(rows).Customer_ID = cid THEN Head(rows).Points_Earned ELSE 0)
       + SumEarned(Tail(rows), cid)

\* C18: for every customer present, Points + Redeemed_Points equals the sum of
\* Points_Earned over the history records with that Customer_ID, and every
\* history record has Points_Earned = floor(Amount / 10).
C18_LedgerMatchesHistory ==
  /\ \A i \in 1..Len(Customers) :
       Customers[i].Points + Customers[i].Redeemed_Points
         = SumEarned(History, Customers[i].Customer_ID)
  /\ \A k \in 1..Len(History) :
       History[k].Points_Earned = FloorTenth(History[k].Amount)

\* C19: when every purchase made so far had a non-negative amount, every
\* customer has Points + Redeemed_Points <= floor(Total_Purchase / 10).
C19_PointsWithinTenth ==
  (\A k \in 1..Len(History) : History[k].Amount >= 0) =>
    \A i \in 1..Len(Customers) :
      Customers[i].Points + Customers[i].Redeemed_Points
        <= Customers[i].Total_Purchase \div 10

\* two purchases of 1005.5 by one customer, part of the points redeemed
C19_Witness ==
  /\ Len(History) = 2
  /\ \A k \in 1..Len(History) : History[k].Amount >= 0
  /\ \E i \in 1..Len(Customers) :
       /\ Customers[i].Redeemed_Points > 0
       /\ Customers[i].Points + Customers[i].Redeemed_Points = 200
       /\ Customers[i].Total_Purchase = 2010

\* the ids of a frame that are "CUST" followed by 4 or more digits
MatchingIds(df) ==
  {df[i].Customer_ID : i \in {j \in 1..Len(df) : cust_match(df[j].Customer_ID)}}

\* C12: next_customer_id returns CUST0001 when no existing id is "CUST" plus
\* 4 or more digits (the empty frame included), and otherwise "CUST" plus
\* (the largest suffix of the matching ids + 1) zero-padded to at least 4
\* digits, ids of another form being ignored; {CUST0001, CUST0003} gives
\* CUST0004.
C12_NextCustomerId ==
  req.op = "next_customer_id" =>
    LET ids == {Customers[i].Customer_ID : i \in 1..Len(Customers)}
        matching == MatchingIds(Customers)
        n == IF matching = {} THEN 1 ELSE Max({Suffix(cid) : cid \in matching}) + 1
        digits == SubSeq(req.result, 5, Len(req.result))
    IN /\ matching = {} => req.result = "CUST0001"
       /\ SubSeq(req.result, 1, 4) = "CUST"
       /\ \A k \in 1..Len(digits) : IsDigit(SubSeq(digits, k, k))
       /\ ParseInt(digits) = n
       /\ Len(digits) = IF n < 10000 THEN 4 ELSE Len(Dec(n))
       /\ ids = {"CUST0001", "CUST0003"} => req.result = "CUST0004"

\* ids of both kinds are present and the largest matching one is CUST9999
C12_Witness ==
  /\ req.op = "next_customer_id"
  /\ req.result = "CUST10000"
  /\ \E i \in 1..Len(Customers) : ~cust_match(Customers[i].Customer_ID)

\* C13: when a call saves the customers, the file holds what that call made
\* of the frame it loaded, whatever another call saved in between: the later
\* save overwrites the earlier one.  (The state in which an update is lost
\* although both calls completed is C13_Witness.)
C13_LastWriterWins ==
  (req.op = "statement" /\ req.statement = "save_customers") =>
    LET c == req.call IN
    /\ c.op = "index_post" =>
         Customers = load_customers(save_customers(
                       index_post_df(c.df, c.form.name, c.form.mobile,
                                     c.form.amount, c.form.purchase_date)))
    /\ (c.op = "redeem" /\ redeem_accepted(c.df, c.form.customer_id, c.form.redeem_points)) =>
         Customers = load_customers(save_customers(
                       redeem_df(c.df, c.form.customer_id, c.form.redeem_points)))

\* both workers have completed one purchase of 1005.5 by mobile 5, the history
\* holds both records, and the customer has the points of one
C13_Witness ==
  /\ \A w \in Workers : calls[w].op = "idle" /\ calls[w].n = 1
  /\ Len(History) = 2
  /\ \A k \in 1..Len(History) : History[k].Mobile = "5" /\ History[k].Points_Earned = 100
  /\ Len(Customers) = 1
  /\ Customers[1].Points + Customers[1].Redeemed_Points = 100

\* the history rows that carry customer id cid
HistoryOf(cid) == SelectSeq(History, LAMBDA r : r.Customer_ID = cid)

\* C14: a purchase writes the customers first and the history second, so with
\* crashes of one sequential worker the history never runs ahead: every
\* history record belongs to a customer whose Points and Total_Purchase
\* include it, and the step that writes the history leaves the customers as
\* they are.  (The state a crash between the two writes leaves is C14_Witness.)
C14_HistoryNeverAhead ==
  /\ \A k \in 1..Len(History) :
       \E i \in 1..Len(Customers) :
         /\ Customers[i].Customer_ID = History[k].Customer_ID
         /\ SumEarned(History, Customers[i].Customer_ID)
              <= Customers[i].Points + Customers[i].Redeemed_Points
         /\ SumFloorAmount(HistoryOf(Customers[i].Customer_ID))
              <= Customers[i].Total_Purchase
  /\ (req.op = "statement" /\ req.statement = "save_history") =>
       customers_csv = before.customers_csv

\* the worker died after the customers write: the customer has the purchase,
\* the history has no record
C14_Witness ==
  /\ calls[1].op = "idle"
  /\ Len(History) = 0
  /\ \E i \in 1..Len(Customers) :
       Customers[i].Points = 100 /\ Customers[i].Total_Purchase = 1005

\* C16: save(load()) followed by load() gives the record set of the first
\* load(): the same values in the same columns and order.
C16_RoundTrip ==
  req.op = "resave" => load_customers(customers_csv) = req.loaded

\* the text v holds the query; a missing value holds nothing
Contains(v, query) == v # NaN /\ str_contains(v, query)

\* C15: a search with a non-empty query shows exactly the history records
\* whose Mobile or Customer_ID contains the query, latest Purchase_Date first,
\* and when there are any the header is the Customer_ID, Name and Mobile of a
\* shown record with the latest date; an empty query shows no record and no
\* header; the stored data stay as they were.
C15_SearchHistory ==
  req.op = "history" =>
    LET res == req.results
        expected == {k \in 1..Len(HistoryBefore) :
                       \/ Contains(HistoryBefore[k].Mobile, req.query)
                       \/ Contains(HistoryBefore[k].Customer_ID, req.query)}
        date(i) == to_datetime(res[i].Purchase_Date)
    IN /\ History = HistoryBefore
       /\ Customers = CustomersBefore
       /\ IF req.query = "" THEN res = <<>> /\ req.header = <<>>
          ELSE /\ Len(res) = Cardinality(expected)
               /\ \A k \in expected : \E i \in 1..Len(res) :
                    res[i] = [HistoryBefore[k] EXCEPT
                                !.Purchase_Date = strftime(to_datetime(@))]
               /\ \A i, j \in 1..Len(res) : i < j => date(i) >= date(j)
               /\ IF res = <<>> THEN req.header = <<>>
                  ELSE \E i \in 1..Len(res) :
                         /\ \A j \in 1..Len(res) : date(i) >= date(j)
                         /\ req.header = <<[Customer_ID |-> res[i].Customer_ID,
                                            Name |-> res[i].Name,
                                            Mobile |-> res[i].Mobile]>>

====
